---- MODULE Spec2Model ----
(***************************************************************************)
(* Trend discovery and scoring pipeline of ai_trend_analyzer.              *)
(*                                                                         *)
(* The relational tables (models.py) are the state; the handlers of        *)
(* tasks/background_tasks.py and services/trend_service.py are the         *)
(* actions.  A table is a sequence of rows in insertion order; the primary *)
(* key of a row of authors, posts, engagement, post_trends and             *)
(* trend_scores is its position, trends carry the key drawn from the id    *)
(* sequence because a concurrent session draws keys before it commits.     *)
(* Time is a logical clock that advances by one with every handler run;    *)
(* rows written by one run carry that run's time and insertion order       *)
(* breaks ties, as datetime.utcnow() does inside one run.                  *)
(*                                                                         *)
(* The process-wide objects are state too: manager is the ServiceManager   *)
(* class with the threads that use it, monitor the TaskMonitor instance    *)
(* task_monitor, cache the CacheManager's memory_cache, breaker the        *)
(* circuit breaker fields of the OpenAIService instance.                   *)
(***************************************************************************)
EXTENDS Integers, Sequences, FiniteSets, TLC

VARIABLES db, now, lastRun, prevRun, sess, manager, monitor, cache, breaker

vars == <<db, now, lastRun, prevRun, sess, manager, monitor, cache, breaker>>

\* the tables and the run records; the process-wide objects
pipeline == <<db, now, lastRun, prevRun, sess>>
components == <<manager, monitor, cache, breaker>>

(***************************************************************************)
(* Bounds of the model.                                                    *)
(***************************************************************************)
MaxOps == 3
MaxBatch == 2
MaxNames == 1

(***************************************************************************)
(* Inputs.                                                                 *)
(***************************************************************************)
ExtIds == {1, 2, 3}

\* the handle that published an external post; a post keeps its author
AuthorOf(pid) == IF pid = 2 THEN "b" ELSE "a"

\* what one fetch reads for a post: the author's follower count and the
\* post's public metrics at that moment
Readings ==
    { [follower_count |-> 0,
       metrics |-> [like_count |-> 0, reply_count |-> 0, retweet_count |-> 0, quote_count |-> 0]],
      [follower_count |-> 2,
       metrics |-> [like_count |-> 3, reply_count |-> 1, retweet_count |-> 1, quote_count |-> 1]] }

\* a raw post as twitter_service._process_search_response builds it;
\* complete = FALSE stands for a dict that lacks one of the required keys
RawPost(pid, r, c) ==
    [post_id |-> pid, username |-> AuthorOf(pid), follower_count |-> r.follower_count,
     metrics |-> r.metrics, complete |-> c]

\* post 1 is read with either reading and once as a dict that lacks a
\* required key; posts 2 and 3 are read with the non-zero reading
Records ==
    { RawPost(1, r, TRUE) : r \in Readings }
    \cup { RawPost(pid, CHOOSE r \in Readings : r.follower_count # 0, TRUE) : pid \in ExtIds \ {1} }
    \cup { RawPost(1, CHOOSE r \in Readings : r.follower_count = 0, FALSE) }

RECURSIVE SeqsUpTo(_, _)
SeqsUpTo(S, n) ==
    IF n = 0 THEN { <<>> }
    ELSE LET shorter == SeqsUpTo(S, n - 1)
         IN  shorter \cup { Append(q, x) : q \in { r \in shorter : Len(r) = n - 1 }, x \in S }

\* the batches a fetch can return: one search response of up to MaxBatch
\* records, each post once, in the order of their ids
Batches ==
    { b \in SeqsUpTo(Records, MaxBatch) :
        \A i \in 1..(Len(b) - 1) : b[i].post_id < b[i + 1].post_id }

Titles == {"AI Ethics", "GPT-5"}

(***************************************************************************)
(* Tables.                                                                 *)
(***************************************************************************)
EmptyDB ==
    [authors |-> <<>>, posts |-> <<>>, engagement |-> <<>>,
     trends |-> <<>>, postTrends |-> <<>>, trendScores |-> <<>>, trendSeq |-> 0]

Range(s) == { s[i] : i \in DOMAIN s }

RECURSIVE SumFn(_)
SumFn(f) ==
    IF DOMAIN f = {} THEN 0
    ELSE LET x == CHOOSE y \in DOMAIN f : TRUE
         IN  f[x] + SumFn([y \in DOMAIN f \ {x} |-> f[y]])

\* Post.query.filter_by(post_id=...).first(): internal id, 0 when absent
FindPost(d, pid) ==
    IF \E i \in DOMAIN d.posts : d.posts[i].post_id = pid
    THEN CHOOSE i \in DOMAIN d.posts :
           /\ d.posts[i].post_id = pid
           /\ \A j \in DOMAIN d.posts : d.posts[j].post_id = pid => i <= j
    ELSE 0

\* Author.query.filter_by(username=...).first(): id, 0 when absent
FindAuthor(d, u) ==
    IF \E i \in DOMAIN d.authors : d.authors[i].username = u
    THEN CHOOSE i \in DOMAIN d.authors :
           /\ d.authors[i].username = u
           /\ \A j \in DOMAIN d.authors : d.authors[j].username = u => i <= j
    ELSE 0

\* variant of the lookup that finds no row (a lookup by another column)
FindTrendNoMatch(d, title) == 0

\* Trend.query.filter_by(title=...).first(): id of the first row, 0 when absent
FindTrend(d, title) ==
    IF \E i \in DOMAIN d.trends : d.trends[i].title = title
    THEN LET i == CHOOSE k \in DOMAIN d.trends :
                    /\ d.trends[k].title = title
                    /\ \A j \in DOMAIN d.trends : d.trends[j].title = title => k <= j
         IN  d.trends[i].id
    ELSE 0

TrendIds(d) == { d.trends[i].id : i \in DOMAIN d.trends }

LinkedPosts(d, tid) ==
    { d.postTrends[k].post_id : k \in { j \in DOMAIN d.postTrends : d.postTrends[j].trend_id = tid } }

SnapshotsOf(d, p) == { e \in DOMAIN d.engagement : d.engagement[e].post_id = p }

ScoresOf(d, tid) == { s \in DOMAIN d.trendScores : d.trendScores[s].trend_id = tid }

(***************************************************************************)
(* Post Store: BackgroundTasks._store_posts_and_authors and its helpers.   *)
(***************************************************************************)
\* _update_post_engagement: one more snapshot for a stored post
UpdatePostEngagement(d, p, m, t) ==
    [d EXCEPT !.engagement = Append(@,
        [post_id |-> p, like_count |-> m.like_count, comment_count |-> m.reply_count,
         repost_count |-> m.retweet_count + m.quote_count, timestamp |-> t])]

\* _get_or_create_author.  held is the Author the caller's local variable
\* still references (0: none).  models.Author has no column "verified", so
\* line 234 reads author.verified from the instance: the attribute exists
\* only on an instance that line 243 created and that is still referenced;
\* an Author loaded from the table raises AttributeError, which line 252
\* re-raises as DataIntegrityException.
\* Result: author = id of the row (0: None), raised, and the new tables.
GetOrCreateAuthor(d, rec, held) ==
    IF rec.username = "" THEN [db |-> d, author |-> 0, raised |-> FALSE]
    ELSE LET a == FindAuthor(d, rec.username)
         IN  IF a # 0
             THEN IF held = a
                  THEN [db |-> [d EXCEPT !.authors[a].follower_count = rec.follower_count],
                        author |-> a, raised |-> FALSE]
                  ELSE [db |-> d, author |-> 0, raised |-> TRUE]
             ELSE [db |-> [d EXCEPT !.authors = Append(@,
                              [username |-> rec.username, follower_count |-> rec.follower_count])],
                   author |-> Len(d.authors) + 1, raised |-> FALSE]

\* one iteration of the loop of lines 154-201 on the session state
\* st = [db, stored, held, raised]
StoreOne(st, rec, t) ==
    IF st.raised THEN st
    ELSE IF ~rec.complete THEN st
    ELSE LET p == FindPost(st.db, rec.post_id)
         IN  IF p # 0
             THEN [st EXCEPT !.db = UpdatePostEngagement(st.db, p, rec.metrics, t)]
             ELSE LET g == GetOrCreateAuthor(st.db, rec, st.held)
                  IN  IF g.raised THEN [st EXCEPT !.raised = TRUE]
                      ELSE IF g.author = 0 THEN [st EXCEPT !.held = 0]
                      ELSE LET newId == Len(g.db.posts) + 1
                               withPost == [g.db EXCEPT !.posts = Append(@,
                                              [post_id |-> rec.post_id, author_id |-> g.author,
                                               created_at |-> t])]
                           IN  [db |-> UpdatePostEngagement(withPost, newId, rec.metrics, t),
                                stored |-> Append(st.stored, newId),
                                held |-> g.author,
                                raised |-> FALSE]

RECURSIVE StoreLoop(_, _, _)
StoreLoop(st, batch, t) ==
    IF batch = <<>> THEN st
    ELSE StoreLoop(StoreOne(st, Head(batch), t), Tail(batch), t)

\* _store_posts_and_authors: commit after the loop (line 203), or roll the
\* whole batch back and return [] when an iteration raised (lines 207-210)
StorePostsAndAuthors(d, batch, t) ==
    LET st == StoreLoop([db |-> d, stored |-> <<>>, held |-> 0, raised |-> FALSE], batch, t)
    IN  IF st.raised
        THEN [db |-> d, stored |-> <<>>, raised |-> TRUE]
        ELSE [db |-> st.db, stored |-> st.stored, raised |-> FALSE]

(***************************************************************************)
(* Scorer: TrendService._calculate_single_trend_score and                  *)
(* calculate_trend_scores.                                                 *)
(***************************************************************************)
\* the rows of the query of lines 267-277: one row per (link, snapshot) of
\* the trend, and one row with no snapshot (0) for a post without any
JoinRows(d, tid) ==
    LET links == { k \in DOMAIN d.postTrends : d.postTrends[k].trend_id = tid }
    IN  UNION { IF SnapshotsOf(d, d.postTrends[k].post_id) = {}
                THEN { <<k, 0>> }
                ELSE { <<k, e>> : e \in SnapshotsOf(d, d.postTrends[k].post_id) }
              : k \in links }

\* the aggregation loop of lines 282-294
AggregateTotals(d, rows) ==
    [likes     |-> SumFn([r \in rows |-> IF r[2] = 0 THEN 0 ELSE d.engagement[r[2]].like_count]),
     comments  |-> SumFn([r \in rows |-> IF r[2] = 0 THEN 0 ELSE d.engagement[r[2]].comment_count]),
     reposts   |-> SumFn([r \in rows |-> IF r[2] = 0 THEN 0 ELSE d.engagement[r[2]].repost_count]),
     followers |-> SumFn([r \in rows |->
                     d.authors[d.posts[d.postTrends[r[1]].post_id].author_id].follower_count])]

SingleTrendTotals(d, tid) == AggregateTotals(d, JoinRows(d, tid))

\* round(x, 2) of n/m, in hundredths, ties to even (the tables of this
\* module hold fewer than 32 followers per trend, so that n/m is never
\* half-way between two hundredths; see RoundChoices for that case)
RoundDiv(n, m) ==
    LET q == n \div m
        r == n % m
    IN  IF 2 * r < m THEN q
        ELSE IF 2 * r > m THEN q + 1
        ELSE IF q % 2 = 0 THEN q ELSE q + 1

\* lines 296-311: the score in hundredths,
\* round((likes + comments*1.1 + reposts*1.2) / followers * 1000, 2)
ScoreOfTotals(tot) ==
    LET followers == IF tot.followers = 0 THEN 1 ELSE tot.followers
        weighted10 == 10 * tot.likes + 11 * tot.comments + 12 * tot.reposts
    IN  RoundDiv(weighted10 * 10000, followers)

\* _calculate_single_trend_score
CalculateSingleTrendScore(d, tid) ==
    IF JoinRows(d, tid) = {} THEN 0
    ELSE ScoreOfTotals(SingleTrendTotals(d, tid))

\* variant of the loop that scores only the trends that have linked posts
RECURSIVE ScoreLoopLinkedOnly(_, _, _)
ScoreLoopLinkedOnly(d, k, t) ==
    IF k > Len(d.trends) THEN d
    ELSE IF JoinRows(d, d.trends[k].id) = {} THEN ScoreLoopLinkedOnly(d, k + 1, t)
    ELSE ScoreLoopLinkedOnly([d EXCEPT !.trendScores = Append(@,
                                 [trend_id |-> d.trends[k].id,
                                  score |-> CalculateSingleTrendScore(d, d.trends[k].id),
                                  date_generated |-> t])],
                             k + 1, t)

RECURSIVE ScoreLoop(_, _, _)
ScoreLoop(d, k, t) ==
    IF k > Len(d.trends) THEN d
    ELSE ScoreLoop([d EXCEPT !.trendScores = Append(@,
                       [trend_id |-> d.trends[k].id,
                        score |-> CalculateSingleTrendScore(d, d.trends[k].id),
                        date_generated |-> t])],
                   k + 1, t)

\* variant of the pass that keeps one row per trend: the rows of earlier
\* passes are replaced
CalculateTrendScoresReplacing(d, t) == ScoreLoop([d EXCEPT !.trendScores = <<>>], 1, t)

\* calculate_trend_scores: one row per trend of Trend.query.all(), one commit
CalculateTrendScores(d, t) == ScoreLoop(d, 1, t)

(***************************************************************************)
(* Clusterer: TrendService._cluster_posts.  KMeans.fit_predict is the      *)
(* library's; its labels (one of 0..n_clusters-1 per post) and whether it   *)
(* raises are inputs of the model.                                         *)
(***************************************************************************)
Min(a, b) == IF a < b THEN a ELSE b
Max(a, b) == IF a > b THEN a ELSE b

\* line 117
NClusters(n) == Min(8, Max(2, n \div 3))

Labelings(n) == [1..n -> 0..(NClusters(n) - 1)]

\* posts[i] for the i with labels[i] = c, in the order of posts (lines 124-126)
RECURSIVE Members(_, _, _, _)
Members(posts, labels, c, i) ==
    IF i > Len(posts) THEN <<>>
    ELSE IF labels[i] = c THEN <<posts[i]>> \o Members(posts, labels, c, i + 1)
    ELSE Members(posts, labels, c, i + 1)

RECURSIVE GroupsFrom(_, _, _, _)
GroupsFrom(posts, labels, c, k) ==
    IF c >= k THEN <<>>
    ELSE LET m == Members(posts, labels, c, 1)
         IN  (IF m = <<>> THEN <<>> ELSE <<m>>) \o GroupsFrom(posts, labels, c + 1, k)

\* variant of the grouping that returns only the posts of the first label
ClusterPostsFirstLabel(posts, labels, kmeansRaises) ==
    IF Len(posts) < 3 THEN <<posts>>
    ELSE IF kmeansRaises THEN <<posts>>
    ELSE LET m == Members(posts, labels, 0, 1)
         IN  IF m = <<>> THEN <<>> ELSE <<m>>

\* _cluster_posts; labels is a labeling of 1..Len(posts) when Len(posts) >= 3
ClusterPosts(posts, labels, kmeansRaises) ==
    IF Len(posts) < 3 THEN <<posts>>
    ELSE IF kmeansRaises THEN <<posts>>
    ELSE GroupsFrom(posts, labels, 0, NClusters(Len(posts)))

(***************************************************************************)
(* Trend Resolver: TrendService._create_trend_basic.                       *)
(***************************************************************************)
\* a title as the namer returns it: its text without surrounding blanks,
\* and whether blanks surround it
RawTitles ==
    { [text |-> t, padded |-> FALSE] : t \in Titles }
    \cup { [text |-> "", padded |-> TRUE], [text |-> "AI Ethics", padded |-> TRUE] }

\* trend_data.get('title', '').strip()
Strip(raw) == raw.text

HasLink(d, p, tid) ==
    \E k \in DOMAIN d.postTrends : d.postTrends[k].post_id = p /\ d.postTrends[k].trend_id = tid

SeqHasLink(links, p, tid) ==
    \E k \in DOMAIN links : links[k].post_id = p /\ links[k].trend_id = tid

\* variant of the check of line 174 that never finds a link
ExistingRelationSkipped(d, pending, p, tid) == FALSE

\* PostTrend.query.filter_by(post_id=..., trend_id=...).first() of line 174:
\* the committed rows and the rows this session added earlier in the loop
ExistingRelation(d, pending, p, tid) == HasLink(d, p, tid) \/ SeqHasLink(pending, p, tid)

\* lines 173-184: a new link for every post of the cluster that has none
RECURSIVE LinkLoop(_, _, _, _)
LinkLoop(d, pending, cluster, tid) ==
    IF cluster = <<>> THEN pending
    ELSE LET p == Head(cluster)
             more == IF ExistingRelation(d, pending, p, tid) THEN pending
                     ELSE Append(pending, [post_id |-> p, trend_id |-> tid])
         IN  LinkLoop(d, more, Tail(cluster), tid)

TrendIndex(d, tid) == CHOOSE i \in DOMAIN d.trends : d.trends[i].id = tid

\* a session that is not inside _create_trend_basic
Idle == [pc |-> "idle", title |-> "", cluster |-> <<>>, trend |-> 0, isNew |-> FALSE,
         links |-> <<>>, t |-> 0]

\* lines 154-170: look the title up; when there is no row, insert one and
\* flush, which draws the next id of the sequence; the row and the later
\* assignments to it stay in the session until the commit
SessLookup(d, title, cluster, t) ==
    LET existing == FindTrend(d, title)
    IN  [pc |-> "linking", title |-> title, cluster |-> cluster,
         trend |-> IF existing # 0 THEN existing ELSE d.trendSeq + 1,
         isNew |-> (existing = 0), links |-> <<>>, t |-> t]

\* variant in which the flush of line 167 commits the new Trend row
DrawTrendIdCommitting(d, s) ==
    IF s.isNew
    THEN [d EXCEPT !.trendSeq = s.trend,
                   !.trends = Append(@, [id |-> s.trend, title |-> s.title,
                                         total_posts |-> Len(s.cluster), updated_at |-> s.t])]
    ELSE d

DrawTrendId(d, s) == IF s.isNew THEN [d EXCEPT !.trendSeq = s.trend] ELSE d

\* lines 173-184 in the session
SessLink(d, s) ==
    [s EXCEPT !.pc = "committing", !.links = LinkLoop(d, <<>>, s.cluster, s.trend)]

\* the constraint unique_post_trend of models.PostTrend: an inserted pair
\* that is already a committed row, or twice among the inserted rows
ViolatesUniquePostTrend(d, links) ==
    \/ \E k \in DOMAIN links : HasLink(d, links[k].post_id, links[k].trend_id)
    \/ \E k1, k2 \in DOMAIN links : k1 # k2 /\ links[k1] = links[k2]

\* line 186: the commit writes the trend row, total_posts, updated_at and
\* the links; an IntegrityError rolls all of them back (lines 190-193) and
\* the call returns None (trend = 0)
SessCommit(d, s) ==
    IF ViolatesUniquePostTrend(d, s.links) THEN [db |-> d, trend |-> 0]
    ELSE LET d1 == IF s.isNew
                   THEN [d EXCEPT !.trends = Append(@,
                            [id |-> s.trend, title |-> s.title,
                             total_posts |-> Len(s.cluster), updated_at |-> s.t])]
                   ELSE [d EXCEPT !.trends[TrendIndex(d, s.trend)].total_posts = Len(s.cluster),
                                  !.trends[TrendIndex(d, s.trend)].updated_at = s.t]
         IN  [db |-> [d1 EXCEPT !.postTrends = @ \o s.links], trend |-> s.trend]

\* _create_trend_basic run by one session from lookup to commit: the
\* tables afterwards and the id of the returned Trend (0: None)
CreateTrendBasic(d, raw, cluster, t) ==
    IF Strip(raw) = "" THEN [db |-> d, trend |-> 0]
    ELSE LET s1 == SessLookup(d, Strip(raw), cluster, t)
             d1 == DrawTrendId(d, s1)
         IN  SessCommit(d1, SessLink(d1, s1))

(***************************************************************************)
(* TrendService.analyze_and_create_trends.  The inputs of one run are what *)
(* the collaborators answer: embOk (generate_embeddings returned vectors), *)
(* labels and kmeansRaises (KMeans), names (the titles returned by         *)
(* cluster_and_identify_trends for the i-th cluster).                      *)
(***************************************************************************)
\* _create_trend_basic when a statement after the lookup raises (the flush
\* of a new Trend has drawn its id): rollback, None
CreateTrendBasicFailing(d, raw, cluster, t) ==
    IF Strip(raw) = "" THEN [db |-> d, trend |-> 0]
    ELSE [db |-> DrawTrendId(d, SessLookup(d, Strip(raw), cluster, t)), trend |-> 0]

\* lines 56-60: every trend the namer identified for the cluster is
\* resolved; fails: persistence fails while this cluster is resolved
RECURSIVE NameLoopWithFailures(_, _, _, _, _)
NameLoopWithFailures(d, identified, cluster, t, fails) ==
    IF identified = <<>> THEN d
    ELSE LET r == IF fails THEN CreateTrendBasicFailing(d, Head(identified), cluster, t)
                  ELSE CreateTrendBasic(d, Head(identified), cluster, t)
         IN  NameLoopWithFailures(r.db, Tail(identified), cluster, t, fails)

NameLoop(d, identified, cluster, t) == NameLoopWithFailures(d, identified, cluster, t, FALSE)

\* variant of the loop without the test of line 49: one title is taken for
\* a cluster the namer was not asked about
RECURSIVE ClusterLoopNoFloor(_, _, _, _, _)
ClusterLoopNoFloor(d, clusters, names, i, t) ==
    IF i > Len(clusters) THEN d
    ELSE LET identified == IF i \in DOMAIN names THEN names[i]
                           ELSE << [text |-> "AI Ethics", padded |-> FALSE] >>
         IN  ClusterLoopNoFloor(NameLoop(d, identified, clusters[i], t), clusters, names, i + 1, t)

\* variant of the loop that ends at the first cluster whose resolution fails
RECURSIVE ClusterLoopStopsAtFailure(_, _, _, _, _, _)
ClusterLoopStopsAtFailure(d, clusters, names, i, t, failing) ==
    IF i > Len(clusters) THEN d
    ELSE IF Len(clusters[i]) < 2 THEN ClusterLoopStopsAtFailure(d, clusters, names, i + 1, t, failing)
    ELSE IF i \in failing THEN d
    ELSE ClusterLoopStopsAtFailure(NameLoop(d, names[i], clusters[i], t),
                                   clusters, names, i + 1, t, failing)

\* lines 48-61: the loop over the clusters; failing is the set of clusters
\* during whose resolution persistence fails
RECURSIVE ClusterLoopWithFailures(_, _, _, _, _, _)
ClusterLoopWithFailures(d, clusters, names, i, t, failing) ==
    IF i > Len(clusters) THEN d
    ELSE IF Len(clusters[i]) < 2 THEN ClusterLoopWithFailures(d, clusters, names, i + 1, t, failing)
    ELSE ClusterLoopWithFailures(NameLoopWithFailures(d, names[i], clusters[i], t, i \in failing),
                                 clusters, names, i + 1, t, failing)

ClusterLoop(d, clusters, names, i, t) == ClusterLoopWithFailures(d, clusters, names, i, t, {})

AnalyzeAndCreateTrends(d, posts, env, t) ==
    IF posts = <<>> THEN d
    ELSE IF ~env.embOk THEN d
    ELSE ClusterLoop(d, ClusterPosts(posts, env.labels, env.kmeansRaises), env.names, 1, t)

\* what the collaborators can answer for a list of posts: the embedding
\* call fails, or KMeans raises, or KMeans labels the posts; the namer is
\* asked once for every cluster of two or more posts
NameLists == SeqsUpTo(RawTitles, MaxNames)

NamerAnswers(clusters) == [{ i \in DOMAIN clusters : Len(clusters[i]) >= 2 } -> NameLists]

NoLabels == <<>>

Envs(posts) ==
    { [embOk |-> FALSE, labels |-> NoLabels, kmeansRaises |-> FALSE, names |-> <<>>] }
    \cup { [embOk |-> TRUE, labels |-> NoLabels, kmeansRaises |-> TRUE, names |-> nm] :
             nm \in NamerAnswers(<<posts>>) }
    \cup (IF Len(posts) < 3 THEN {}
          ELSE UNION { { [embOk |-> TRUE, labels |-> l, kmeansRaises |-> FALSE, names |-> nm] :
                           nm \in NamerAnswers(ClusterPosts(posts, l, FALSE)) }
                     : l \in Labelings(Len(posts)) })

(***************************************************************************)
(* BackgroundTasks: the scheduled handlers.                                *)
(***************************************************************************)
\* BackgroundTasks.__init__ sets service_manager and correlation_id and no
\* attribute trend_service: self.trend_service raises AttributeError
BackgroundTasksHasTrendService == FALSE

DaysToKeep == 30
RecentWindow == 1
RecentLimit == 50

\* BackgroundTasks._analyze_and_create_trends: line 287 reads
\* self.trend_service, line 290 catches what it raises
TasksAnalyzeAndCreateTrends(d, posts, env, t) ==
    IF posts = <<>> THEN d
    ELSE IF ~BackgroundTasksHasTrendService THEN d
    ELSE AnalyzeAndCreateTrends(d, posts, env, t)

RECURSIVE KeepRows(_, _)
KeepRows(s, keep) ==
    IF s = <<>> THEN <<>>
    ELSE (IF Head(keep) THEN <<Head(s)>> ELSE <<>>) \o KeepRows(Tail(s), Tail(keep))

\* BackgroundTasks._cleanup_old_data: snapshots older than the cutoff that
\* are not the latest of their post, and scores older than the cutoff.  Its
\* only call is line 132, after line 129 has returned
CleanupOldData(d, t) ==
    LET cutoff == t - DaysToKeep
        latest(p) == CHOOSE m \in { d.engagement[e].timestamp : e \in SnapshotsOf(d, p) } :
                        \A e \in SnapshotsOf(d, p) : d.engagement[e].timestamp <= m
        keepE == [e \in DOMAIN d.engagement |->
                    ~(d.engagement[e].timestamp < cutoff
                      /\ d.engagement[e].timestamp # latest(d.engagement[e].post_id))]
        keepS == [s \in DOMAIN d.trendScores |-> ~(d.trendScores[s].date_generated < cutoff)]
    IN  [d EXCEPT !.engagement = KeepRows(@, keepE), !.trendScores = KeepRows(@, keepS)]

Reverse(s) == [i \in 1..Len(s) |-> s[Len(s) + 1 - i]]

AllPostIds(d) == [i \in 1..Len(d.posts) |-> i]

RECURSIVE FilterSeq(_, _)
FilterSeq(s, keep) ==
    IF s = <<>> THEN <<>>
    ELSE (IF keep[Head(s)] THEN <<Head(s)>> ELSE <<>>) \o FilterSeq(Tail(s), keep)

\* Post.query.filter(Post.created_at >= yesterday).all()
RecentPosts(d, t) ==
    FilterSeq(AllPostIds(d), [i \in 1..Len(d.posts) |-> d.posts[i].created_at >= t - RecentWindow])

\* Post.query.order_by(Post.created_at.desc()).limit(50).all()
LatestPosts(d) ==
    LET r == Reverse(AllPostIds(d))
    IN  SubSeq(r, 1, Min(RecentLimit, Len(r)))

(***************************************************************************)
(* TaskMonitor (utils/monitoring.py).  current_tasks maps a task id to the *)
(* TaskMetrics of a task; the log file is only written.                    *)
(***************************************************************************)
InitMonitor == [current_tasks |-> <<>>]

\* start_task, lines 51-59
StartTask(m, id, t) ==
    [current_tasks |->
        [k \in DOMAIN m.current_tasks \cup {id} |->
            IF k = id THEN [status |-> "RUNNING", start_time |-> t]
            ELSE m.current_tasks[k]]]

\* _archive_task, lines 140-141
ArchiveTask(m, id) ==
    [current_tasks |-> [k \in DOMAIN m.current_tasks \ {id} |-> m.current_tasks[k]]]

\* variant that marks the task and leaves it in current_tasks
CompleteTaskKeeping(m, id) ==
    IF id \notin DOMAIN m.current_tasks THEN m
    ELSE [m EXCEPT !.current_tasks[id].status = "COMPLETED"]

\* complete_task, lines 67-79: the metrics are marked COMPLETED and the
\* entry is deleted
CompleteTask(m, id) ==
    IF id \notin DOMAIN m.current_tasks THEN m
    ELSE ArchiveTask([m EXCEPT !.current_tasks[id].status = "COMPLETED"], id)

\* fail_task, lines 85-96
FailTask(m, id) ==
    IF id \notin DOMAIN m.current_tasks THEN m
    ELSE ArchiveTask([m EXCEPT !.current_tasks[id].status = "FAILED"], id)

\* get_running_tasks, line 106
GetRunningTasks(m) ==
    { k \in DOMAIN m.current_tasks : m.current_tasks[k].status = "RUNNING" }

Procs == {1, 2}

(***************************************************************************)
(* ServiceManager (services/service_manager.py) used by the threads of     *)
(* Procs.  instance is ServiceManager._instance (0: None); the block held  *)
(* under ServiceManager._lock is one step; initialized is whether the      *)
(* instance has _initialized, twitter_service the field _twitter_service   *)
(* (0: None, k: the k-th TwitterService constructed); the other three      *)
(* properties have the same code.  pc[p] is the line thread p is at, sm[p] *)
(* the object its last construction returned, got the instances that reads *)
(* of the property have returned, cleanups the calls of cleanup() so far.  *)
(***************************************************************************)
MaxCleanups == 1

InitManager ==
    [instance |-> 0, objects |-> 0, initialized |-> FALSE,
     twitter_service |-> 0, services |-> 0, cleanups |-> 0,
     pc |-> [p \in Procs |-> "idle"], sm |-> [p \in Procs |-> 0],
     constructed |-> {}, got |-> {}]

\* ServiceManager(): __new__ line 21, the first test
NewCheck(p) ==
    /\ manager.pc[p] = "idle"
    /\ manager' = IF manager.instance = 0
                  THEN [manager EXCEPT !.pc[p] = "new_lock"]
                  ELSE [manager EXCEPT !.pc[p] = "init", !.sm[p] = manager.instance,
                                       !.constructed = @ \cup {manager.instance}]
    /\ UNCHANGED <<monitor, cache, breaker>>
    /\ UNCHANGED pipeline

\* __new__ lines 22-25: under the lock, test again and create
NewLocked(p) ==
    /\ manager.pc[p] = "new_lock"
    /\ LET made == IF manager.instance = 0 THEN manager.objects + 1 ELSE manager.instance
       IN  manager' = [manager EXCEPT !.instance = made,
                                      !.objects = IF manager.instance = 0 THEN @ + 1 ELSE @,
                                      !.pc[p] = "init", !.sm[p] = made,
                                      !.constructed = @ \cup {made}]
    /\ UNCHANGED <<monitor, cache, breaker>>
    /\ UNCHANGED pipeline

\* __init__ line 28
InitCheck(p) ==
    /\ manager.pc[p] = "init"
    /\ manager' = [manager EXCEPT !.pc[p] = IF manager.initialized THEN "ready" ELSE "init_fields"]
    /\ UNCHANGED <<monitor, cache, breaker>>
    /\ UNCHANGED pipeline

\* __init__ lines 29-32
InitFields(p) ==
    /\ manager.pc[p] = "init_fields"
    /\ manager' = [manager EXCEPT !.twitter_service = 0, !.pc[p] = "init_flag"]
    /\ UNCHANGED <<monitor, cache, breaker>>
    /\ UNCHANGED pipeline

\* __init__ line 33
InitFlag(p) ==
    /\ manager.pc[p] = "init_flag"
    /\ manager' = [manager EXCEPT !.initialized = TRUE, !.pc[p] = "ready"]
    /\ UNCHANGED <<monitor, cache, breaker>>
    /\ UNCHANGED pipeline

\* twitter_service, line 39
ReadCheck(p) ==
    /\ manager.pc[p] = "ready"
    /\ manager' = [manager EXCEPT !.pc[p] = IF manager.twitter_service = 0
                                            THEN "read_create" ELSE "read_return"]
    /\ UNCHANGED <<monitor, cache, breaker>>
    /\ UNCHANGED pipeline

\* twitter_service, line 40
ReadCreate(p) ==
    /\ manager.pc[p] = "read_create"
    /\ manager' = [manager EXCEPT !.twitter_service = manager.services + 1,
                                  !.services = @ + 1, !.pc[p] = "read_return"]
    /\ UNCHANGED <<monitor, cache, breaker>>
    /\ UNCHANGED pipeline

\* twitter_service, line 42; the thread may then construct and read again
ReadReturn(p) ==
    /\ manager.pc[p] = "read_return"
    /\ manager' = [manager EXCEPT !.got = @ \cup {manager.twitter_service}, !.pc[p] = "idle"]
    /\ UNCHANGED <<monitor, cache, breaker>>
    /\ UNCHANGED pipeline

\* cleanup(), lines 71-74, by a thread that holds the manager
Cleanup(p) ==
    /\ manager.pc[p] = "ready"
    /\ manager.cleanups < MaxCleanups
    /\ manager' = [manager EXCEPT !.twitter_service = 0, !.cleanups = @ + 1]
    /\ UNCHANGED <<monitor, cache, breaker>>
    /\ UNCHANGED pipeline

NextManager ==
    \E p \in Procs :
        \/ NewCheck(p)
        \/ NewLocked(p)
        \/ InitCheck(p)
        \/ InitFields(p)
        \/ InitFlag(p)
        \/ ReadCheck(p)
        \/ ReadCreate(p)
        \/ ReadReturn(p)
        \/ Cleanup(p)


(***************************************************************************)
(* CacheManager (utils/caching.py) without a Redis client: memory_cache    *)
(* maps a key to its entry, value and expires.  A value is a positive      *)
(* number, 0 stands for None.                                              *)
(***************************************************************************)
InitCache == [memory_cache |-> <<>>]

\* variant of get that does not look at expires
CacheGetIgnoringExpiry(c, k, t) ==
    IF k \in DOMAIN c.memory_cache
    THEN [cache |-> c, value |-> c.memory_cache[k].value]
    ELSE [cache |-> c, value |-> 0]

\* get, lines 59-68: the cache afterwards and the value returned
CacheGet(c, k, t) ==
    IF k \in DOMAIN c.memory_cache /\ c.memory_cache[k].expires > t
    THEN [cache |-> c, value |-> c.memory_cache[k].value]
    ELSE IF k \in DOMAIN c.memory_cache
    THEN [cache |-> [memory_cache |->
                        [j \in DOMAIN c.memory_cache \ {k} |-> c.memory_cache[j]]],
          value |-> 0]
    ELSE [cache |-> c, value |-> 0]

\* set, lines 86-92
CacheSet(c, k, v, ttl, t) ==
    [memory_cache |->
        [j \in DOMAIN c.memory_cache \cup {k} |->
            IF j = k THEN [value |-> v, expires |-> t + ttl] ELSE c.memory_cache[j]]]

\* delete, line 106
CacheDelete(c, k) ==
    [memory_cache |-> [j \in DOMAIN c.memory_cache \ {k} |-> c.memory_cache[j]]]

(***************************************************************************)
(* Circuit breaker of OpenAIService (services/openai_service.py) and       *)
(* cluster_and_identify_trends, which consults it.  posts is "none" for an *)
(* empty list, otherwise the name of the list's content, which is also its *)
(* cache key; a result is the list of trend titles.                        *)
(***************************************************************************)
FailureThreshold == 5
RecoveryTimeout == 300
TrendsCacheTtl == 1800

InitBreaker == [failure_count |-> 0, last_failure_time |-> 0, circuit_open |-> FALSE]

\* variant that closes the circuit and keeps the failure count
CheckCircuitBreakerKeepingCount(b, t) ==
    IF ~b.circuit_open THEN [breaker |-> b, blocked |-> FALSE]
    ELSE IF t - b.last_failure_time > RecoveryTimeout
    THEN [breaker |-> [b EXCEPT !.circuit_open = FALSE], blocked |-> FALSE]
    ELSE [breaker |-> b, blocked |-> TRUE]

\* _check_circuit_breaker, lines 65-75: the fields afterwards and whether
\* the request is blocked
CheckCircuitBreaker(b, t) ==
    IF ~b.circuit_open THEN [breaker |-> b, blocked |-> FALSE]
    ELSE IF t - b.last_failure_time > RecoveryTimeout
    THEN [breaker |-> [b EXCEPT !.circuit_open = FALSE, !.failure_count = 0],
          blocked |-> FALSE]
    ELSE [breaker |-> b, blocked |-> TRUE]

\* _record_failure, lines 79-84
RecordFailure(b, t) ==
    [failure_count |-> b.failure_count + 1,
     last_failure_time |-> t,
     circuit_open |-> (b.circuit_open \/ b.failure_count + 1 >= FailureThreshold)]

\* _record_success, lines 88-90
RecordSuccess(b) ==
    IF b.failure_count > 0 THEN [b EXCEPT !.failure_count = @ - 1] ELSE b

\* _fallback_trend_identification, lines 221-250: the keyword trends
FallbackTrendIdentification(posts) ==
    IF posts = "none" THEN <<>> ELSE << "keywords of " \o posts >>

\* cluster_and_identify_trends, lines 128-191 (its own handler catches
\* every exception, so the retry decorator makes one attempt).  api is what
\* the chat completion would answer: "ok", "error" or "timeout".
ClusterAndIdentifyTrends(b, c, posts, api, t) ==
    IF posts = "none"
    THEN [breaker |-> b, cache |-> c, value |-> <<>>, apiCalled |-> FALSE]
    ELSE LET chk == CheckCircuitBreaker(b, t)
             g == CacheGet(c, posts, t)
         IN  IF chk.blocked
             THEN [breaker |-> chk.breaker, cache |-> c,
                   value |-> FallbackTrendIdentification(posts), apiCalled |-> FALSE]
             ELSE IF g.value # 0
             THEN [breaker |-> chk.breaker, cache |-> g.cache,
                   value |-> << "trends of " \o posts >>, apiCalled |-> FALSE]
             ELSE IF api = "ok"
             THEN [breaker |-> RecordSuccess(chk.breaker),
                   cache |-> CacheSet(g.cache, posts, 1, TrendsCacheTtl, t),
                   value |-> << "trends of " \o posts >>, apiCalled |-> TRUE]
             ELSE [breaker |-> RecordFailure(chk.breaker, t), cache |-> g.cache,
                   value |-> IF api = "timeout" THEN FallbackTrendIdentification(posts)
                             ELSE <<>>,
                   apiCalled |-> TRUE]

NoRun == [op |-> "none", received |-> 0, stored |-> 0, embedding |-> "not_called",
          scored |-> FALSE, status |-> "none", batch |-> <<>>, title |-> "", cluster |-> <<>>,
          trend |-> 0, input |-> <<>>, result |-> <<>>, failing |-> {},
          scoring |-> "not_called", transaction |-> "none"]

Init ==
    /\ db = EmptyDB
    /\ now = 0
    /\ lastRun = NoRun
    /\ prevRun = NoRun
    /\ sess = [p \in Procs |-> Idle]
    /\ manager = InitManager
    /\ monitor = InitMonitor
    /\ cache = InitCache
    /\ breaker = InitBreaker

EmbeddingOutcome(posts, env, called) ==
    IF posts = <<>> \/ ~called THEN "not_called"
    ELSE IF env.embOk THEN "ok" ELSE "failed"

\* fetch_and_process_posts when search_recent_posts raises: lines 61-62, 96-99
FetchFails ==
    /\ now < MaxOps
    /\ now' = now + 1
    /\ prevRun' = lastRun
    /\ lastRun' = [NoRun EXCEPT !.op = "fetch", !.status = "FAILED"]
    /\ UNCHANGED <<db, sess>>
    /\ monitor' = FailTask(StartTask(monitor, now + 1, now + 1), now + 1)
    /\ UNCHANGED <<manager, cache, breaker>>

\* fetch_and_process_posts when the source returns no posts: lines 66-68
FetchNothing ==
    /\ now < MaxOps
    /\ now' = now + 1
    /\ prevRun' = lastRun
    /\ lastRun' = [NoRun EXCEPT !.op = "fetch", !.status = "RUNNING"]
    /\ UNCHANGED <<db, sess>>
    /\ monitor' = StartTask(monitor, now + 1, now + 1)
    /\ UNCHANGED <<manager, cache, breaker>>

\* the collaborators are not asked
NoEnv == [embOk |-> FALSE, labels |-> NoLabels, kmeansRaises |-> FALSE, names |-> <<>>]

\* the answers the collaborators can give to a handler of BackgroundTasks
TaskEnvs(posts) == IF BackgroundTasksHasTrendService THEN Envs(posts) ELSE { NoEnv }

\* the posts _store_posts_and_authors returns for a batch: those the
\* collaborators are asked about
StoredOf(batch) == StorePostsAndAuthors(db, batch, now + 1).stored

\* fetch_and_process_posts on a non-empty batch, lines 75-94: store, and
\* when posts were stored analyse them and score all trends; env is what
\* the collaborators answer for the stored posts
FetchBatch(batch, env) ==
    LET t == now + 1
        st == StorePostsAndAuthors(db, batch, t)
        analysed == TasksAnalyzeAndCreateTrends(st.db, st.stored, env, t)
    IN  /\ db' = IF st.stored # <<>> THEN CalculateTrendScores(analysed, t) ELSE st.db
        /\ lastRun' = [NoRun EXCEPT !.op = "fetch", !.received = Len(batch),
                           !.stored = Len(st.stored),
                           !.embedding = EmbeddingOutcome(st.stored, env,
                                             BackgroundTasksHasTrendService),
                           !.scored = (st.stored # <<>>),
                           !.scoring = IF st.stored # <<>> THEN "ok" ELSE "not_called",
                           !.transaction = "committed",
                           !.status = "COMPLETED"]

FetchAndProcessPosts ==
    /\ now < MaxOps
    /\ \E batch \in Batches \ { <<>> } :
         \E env \in TaskEnvs(StoredOf(batch)) : FetchBatch(batch, env)
    /\ now' = now + 1
    /\ prevRun' = lastRun
    /\ UNCHANGED sess
    /\ monitor' = CompleteTask(StartTask(monitor, now + 1, now + 1), now + 1)
    /\ UNCHANGED <<manager, cache, breaker>>

\* daily_trend_analysis: line 129 reads self.trend_service; the handler of
\* line 136 logs the AttributeError and rolls back
DailyTrendAnalysis ==
    /\ now < MaxOps
    /\ LET t == now + 1
           recent == RecentPosts(db, t)
       IN  \E env \in TaskEnvs(recent) :
             LET analysed == TasksAnalyzeAndCreateTrends(db, recent, env, t)
             IN  /\ db' = IF BackgroundTasksHasTrendService
                          THEN CleanupOldData(CalculateTrendScores(analysed, t), t)
                          ELSE analysed
                 /\ lastRun' = [NoRun EXCEPT !.op = "daily", !.received = Len(recent),
                                    !.embedding = EmbeddingOutcome(recent, env,
                                                      BackgroundTasksHasTrendService),
                                    !.scored = BackgroundTasksHasTrendService,
                                    !.status = IF BackgroundTasksHasTrendService
                                               THEN "done" ELSE "error_logged"]
    /\ now' = now + 1
    /\ prevRun' = lastRun
    /\ UNCHANGED sess
    /\ UNCHANGED components

\* the clusters analyze_and_create_trends works on in a run (line 46);
\* none when the embedding call returned nothing
ClustersOfRun(posts, env) ==
    IF posts = <<>> \/ ~env.embOk THEN <<>>
    ELSE ClusterPosts(posts, env.labels, env.kmeansRaises)

\* run_trend_analysis of run_full_pipeline.py: the latest posts are
\* analysed by a TrendService of its own, then all trends are scored
RunTrendAnalysis ==
    /\ now < MaxOps
    /\ Len(db.posts) > 0
    /\ LET t == now + 1
           posts == LatestPosts(db)
       IN  \E env \in Envs(posts) :
             /\ db' = CalculateTrendScores(AnalyzeAndCreateTrends(db, posts, env, t), t)
             /\ lastRun' = [NoRun EXCEPT !.op = "analysis", !.received = Len(posts),
                                !.embedding = EmbeddingOutcome(posts, env, TRUE),
                                !.input = posts, !.result = ClustersOfRun(posts, env),
                                !.scored = TRUE, !.scoring = "ok", !.status = "done"]
    /\ now' = now + 1
    /\ prevRun' = lastRun
    /\ UNCHANGED sess
    /\ UNCHANGED components

Next ==
    \/ FetchFails
    \/ FetchNothing
    \/ FetchAndProcessPosts
    \/ DailyTrendAnalysis
    \/ RunTrendAnalysis

Spec == Init /\ [][Next]_vars

(***************************************************************************)
(* The components called one at a time: the Post Store, the Resolver on a  *)
(* named cluster of stored posts, and the Scorer.                          *)
(***************************************************************************)
RECURSIVE Ascending(_, _)
Ascending(S, from) ==
    IF S = {} THEN <<>>
    ELSE LET m == CHOOSE x \in S : \A y \in S : x <= y
         IN  <<m>> \o Ascending(S \ {m}, m)

\* the clusters of stored posts, each in the order of the posts
Clusters(d) == { Ascending(S, 0) : S \in SUBSET (1..Len(d.posts)) }

StoreStep ==
    /\ now < MaxOps
    /\ \E batch \in Batches :
         LET st == StorePostsAndAuthors(db, batch, now + 1)
         IN  /\ db' = st.db
             /\ lastRun' = [NoRun EXCEPT !.op = "store", !.received = Len(batch),
                                !.stored = Len(st.stored), !.batch = batch,
                                !.status = IF st.raised THEN "rolled_back" ELSE "committed"]
    /\ now' = now + 1
    /\ prevRun' = lastRun
    /\ UNCHANGED sess
    /\ UNCHANGED components

ResolveStep ==
    /\ now < MaxOps
    /\ \E raw \in RawTitles, cluster \in Clusters(db) :
         LET r == CreateTrendBasic(db, raw, cluster, now + 1)
         IN  /\ db' = r.db
             /\ lastRun' = [NoRun EXCEPT !.op = "resolve", !.title = Strip(raw),
                                !.cluster = cluster, !.trend = r.trend,
                                !.status = IF r.trend = 0 THEN "none" ELSE "committed"]
    /\ now' = now + 1
    /\ prevRun' = lastRun
    /\ UNCHANGED sess
    /\ UNCHANGED components

ScoreStep ==
    /\ now < MaxOps
    /\ db' = CalculateTrendScores(db, now + 1)
    /\ lastRun' = [NoRun EXCEPT !.op = "score", !.scored = TRUE, !.scoring = "ok",
                       !.status = "committed"]
    /\ now' = now + 1
    /\ prevRun' = lastRun
    /\ UNCHANGED sess
    /\ UNCHANGED components

NextResolver ==
    \/ StoreStep
    \/ ResolveStep
    \/ ScoreStep

SpecResolver == Init /\ [][NextResolver]_vars

(***************************************************************************)
(* Two sessions (two processes that run run_trend_analysis at the same     *)
(* time, each with a database session of its own) inside                   *)
(* _create_trend_basic.  A query reads the committed rows and the rows of  *)
(* its own session; the rows of a session reach the tables at its commit.  *)
(***************************************************************************)
ResolveLookup(p) ==
    /\ now < MaxOps
    /\ sess[p].pc = "idle"
    /\ Len(db.posts) >= 2
    /\ \E raw \in { r \in RawTitles : Strip(r) # "" },
          cluster \in { c \in Clusters(db) : Len(c) >= 2 } :
         LET s == SessLookup(db, Strip(raw), cluster, now + 1)
         IN  /\ sess' = [sess EXCEPT ![p] = s]
             /\ db' = DrawTrendId(db, s)
    /\ now' = now + 1
    /\ UNCHANGED <<lastRun, prevRun>>
    /\ UNCHANGED components

ResolveLink(p) ==
    /\ sess[p].pc = "linking"
    /\ sess' = [sess EXCEPT ![p] = SessLink(db, sess[p])]
    /\ UNCHANGED <<db, now, lastRun, prevRun>>
    /\ UNCHANGED components

ResolveCommit(p) ==
    /\ sess[p].pc = "committing"
    /\ LET r == SessCommit(db, sess[p])
       IN  /\ db' = r.db
           /\ lastRun' = [NoRun EXCEPT !.op = "resolve", !.title = sess[p].title,
                              !.cluster = sess[p].cluster, !.trend = r.trend,
                              !.status = IF r.trend = 0 THEN "rolled_back" ELSE "committed"]
    /\ prevRun' = lastRun
    /\ sess' = [sess EXCEPT ![p] = Idle]
    /\ UNCHANGED now
    /\ UNCHANGED components

NextConc ==
    \/ StoreStep
    \/ \E p \in Procs : ResolveLookup(p)
    \/ \E p \in Procs : ResolveLink(p)
    \/ \E p \in Procs : ResolveCommit(p)

SpecConc == Init /\ [][NextConc]_vars


(***************************************************************************)
(* The end-to-end scenario: one fetch returns nine new posts of nine       *)
(* authors, KMeans puts posts 1-3, 4-6 and 7-9 into three clusters and the *)
(* namer gives each cluster a title of its own.                            *)
(***************************************************************************)
E2EHandles == <<"u1", "u2", "u3", "u4", "u5", "u6", "u7", "u8", "u9">>

GroupOf(i) == (i - 1) \div 3

\* the nine records; the posts of a group share what the fetch reads
E2EBatches ==
    { [i \in 1..9 |-> [post_id |-> i, username |-> E2EHandles[i],
                       follower_count |-> g[GroupOf(i)].follower_count,
                       metrics |-> g[GroupOf(i)].metrics, complete |-> TRUE]]
      : g \in [0..2 -> Readings] }

E2ETitles == <<"AI Ethics", "GPT-5", "Robotics">>

E2EEnvs(posts) ==
    IF Len(posts) # 9 THEN { NoEnv }
    ELSE { [embOk |-> TRUE, labels |-> [i \in 1..9 |-> GroupOf(i)], kmeansRaises |-> FALSE,
            names |-> [c \in 1..3 |-> << [text |-> E2ETitles[c], padded |-> FALSE] >>]] }

FetchE2E ==
    /\ now < MaxOps
    /\ \E batch \in E2EBatches :
         \E env \in E2EEnvs(StoredOf(batch)) : FetchBatch(batch, env)
    /\ now' = now + 1
    /\ prevRun' = lastRun
    /\ UNCHANGED sess
    /\ monitor' = CompleteTask(StartTask(monitor, now + 1, now + 1), now + 1)
    /\ UNCHANGED <<manager, cache, breaker>>

NextE2E ==
    \/ FetchE2E
    \/ DailyTrendAnalysis

SpecE2E == Init /\ [][NextE2E]_vars

(***************************************************************************)
(* Properties.                                                             *)
(***************************************************************************)
IsPrefix(s, r) == Len(s) <= Len(r) /\ SubSeq(r, 1, Len(s)) = s

\* the latest snapshot of a post (0 when it has none)
LatestSnapshot(d, p) ==
    IF SnapshotsOf(d, p) = {} THEN 0
    ELSE CHOOSE e \in SnapshotsOf(d, p) :
           \A f \in SnapshotsOf(d, p) :
              \/ d.engagement[f].timestamp < d.engagement[e].timestamp
              \/ d.engagement[f].timestamp = d.engagement[e].timestamp /\ f <= e

\* one contribution per linked post: its latest snapshot and its author
LatestTotals(d, tid) ==
    LET P == LinkedPosts(d, tid)
        snap(p) == d.engagement[LatestSnapshot(d, p)]
    IN  [likes     |-> SumFn([p \in P |-> IF LatestSnapshot(d, p) = 0 THEN 0 ELSE snap(p).like_count]),
         comments  |-> SumFn([p \in P |-> IF LatestSnapshot(d, p) = 0 THEN 0 ELSE snap(p).comment_count]),
         reposts   |-> SumFn([p \in P |-> IF LatestSnapshot(d, p) = 0 THEN 0 ELSE snap(p).repost_count]),
         followers |-> SumFn([p \in P |-> d.authors[d.posts[p].author_id].follower_count])]

\* C1: for every trend and every state of the tables, the totals that
\* _calculate_single_trend_score computes take every linked post exactly
\* once, with the counts of its latest snapshot and the follower count of
\* its author, however many snapshots the post has.
C1_OneContributionPerPost ==
    \A tid \in TrendIds(db) : SingleTrendTotals(db, tid) = LatestTotals(db, tid)

PostRows(d, pid) == { i \in DOMAIN d.posts : d.posts[i].post_id = pid }

UniquePostIds(d) == \A pid \in ExtIds : Cardinality(PostRows(d, pid)) <= 1

Occurrences(batch, pid) ==
    Cardinality({ j \in DOMAIN batch : batch[j].complete /\ batch[j].post_id = pid })

\* C2: there is never more than one Post row per external post_id, and a
\* call of _store_posts_and_authors adds, for every record whose post_id
\* was stored before the call, no Post row and exactly one Engagement row
\* of that post per such record.
C2_IdempotentReingestion ==
    [][ (lastRun'.op = "store" /\ now' # now) =>
          /\ UniquePostIds(db')
          /\ \A pid \in ExtIds :
                (FindPost(db, pid) # 0 /\ Occurrences(lastRun'.batch, pid) > 0) =>
                   /\ PostRows(db', pid) = PostRows(db, pid)
                   /\ Cardinality(SnapshotsOf(db', FindPost(db, pid)))
                        = Cardinality(SnapshotsOf(db, FindPost(db, pid)))
                          + Occurrences(lastRun'.batch, pid) ]_vars

TrendRows(d, title) == { i \in DOMAIN d.trends : d.trends[i].title = title }

\* C3: when a cluster is resolved right after another cluster under the
\* same title, there is exactly one Trend row with that title afterwards
\* and it is linked to every post of both clusters.
C3_TitleDedupMerge ==
    ( /\ prevRun.op = "resolve" /\ lastRun.op = "resolve"
      /\ prevRun.title # "" /\ lastRun.title = prevRun.title ) =>
        /\ Cardinality(TrendRows(db, lastRun.title)) = 1
        /\ \A p \in Range(prevRun.cluster) \cup Range(lastRun.cluster) :
              HasLink(db, p, FindTrend(db, lastRun.title))

\* C3 witness: two clusters that differ in both directions were resolved
\* one after the other under one title
C3_Witness ==
    /\ prevRun.op = "resolve" /\ lastRun.op = "resolve"
    /\ prevRun.title # "" /\ lastRun.title = prevRun.title
    /\ \E p \in Range(prevRun.cluster) : p \notin Range(lastRun.cluster)
    /\ \E p \in Range(lastRun.cluster) : p \notin Range(prevRun.cluster)
    /\ LinkedPosts(db, lastRun.trend) = Range(prevRun.cluster) \cup Range(lastRun.cluster)

UniqueLinks(d) ==
    \A k1, k2 \in DOMAIN d.postTrends :
        (d.postTrends[k1].post_id = d.postTrends[k2].post_id
         /\ d.postTrends[k1].trend_id = d.postTrends[k2].trend_id) => k1 = k2

\* C5: resolving the same title with the same cluster a second time
\* returns the trend again and adds no PostTrend row, and no two PostTrend
\* rows ever carry the same (post_id, trend_id).
C5_LinkIdempotence ==
    [][ /\ UniqueLinks(db')
        /\ ( /\ lastRun.op = "resolve" /\ lastRun'.op = "resolve" /\ now' # now
             /\ lastRun.title # "" /\ lastRun'.title = lastRun.title
             /\ lastRun'.cluster = lastRun.cluster ) =>
               /\ lastRun'.trend = lastRun.trend /\ lastRun'.trend # 0
               /\ db'.postTrends = db.postTrends ]_vars

\* C5 witness: the same cluster of two or more posts was resolved twice in
\* a row under one title
C5_Witness ==
    /\ prevRun.op = "resolve" /\ lastRun.op = "resolve"
    /\ prevRun.title # "" /\ lastRun.title = prevRun.title
    /\ Len(lastRun.cluster) >= 2 /\ lastRun.cluster = prevRun.cluster
    /\ LinkedPosts(db, lastRun.trend) = Range(lastRun.cluster)

\* C10: a scoring pass appends exactly one TrendScore row for every Trend
\* row and changes no other row; the row of a trend without linked posts
\* has score 0.
C10_OneScorePerTrend ==
    [][ (lastRun'.op = "score" /\ now' # now) =>
          /\ IsPrefix(db.trendScores, db'.trendScores)
          /\ Len(db'.trendScores) = Len(db.trendScores) + Len(db.trends)
          /\ db'.trends = db.trends
          /\ \A tid \in TrendIds(db) :
                /\ Cardinality(ScoresOf(db', tid)) = Cardinality(ScoresOf(db, tid)) + 1
                /\ LinkedPosts(db, tid) = {} =>
                     \A s \in ScoresOf(db', tid) \ ScoresOf(db, tid) :
                        db'.trendScores[s].score = 0 ]_vars

\* C10 witness: a pass has given a row to each of two trends, one with
\* linked posts and one without, the latter with score 0
C10_Witness ==
    /\ lastRun.op = "score"
    /\ \E t1, t2 \in TrendIds(db) :
          /\ LinkedPosts(db, t1) = {}
          /\ \E s \in ScoresOf(db, t1) : db.trendScores[s].date_generated = now
                                          /\ db.trendScores[s].score = 0
          /\ t2 # t1
          /\ \E s \in ScoresOf(db, t2) : db.trendScores[s].date_generated = now

\* C4: also when two resolutions of a title that has no row yet both look
\* the title up before either commits, the tables never hold two Trend
\* rows with that title.
C4_NoDuplicateTitle ==
    \A title \in Titles : Cardinality(TrendRows(db, title)) <= 1

\* C9: the first run of fetch_and_process_posts, over nine new posts in
\* three groups of three with one title per cluster, ends with three Trend
\* rows, three links per trend and one TrendScore row per trend, computed
\* from the links of the trend.
C9_EndToEnd ==
    (prevRun.op = "none" /\ lastRun.op = "fetch" /\ lastRun.stored = 9) =>
        /\ Len(db.trends) = 3
        /\ \A tid \in TrendIds(db) :
              /\ Cardinality(LinkedPosts(db, tid)) = 3
              /\ Cardinality(ScoresOf(db, tid)) = 1
              /\ \A s \in ScoresOf(db, tid) :
                    db.trendScores[s].score = CalculateSingleTrendScore(db, tid)

C7_EmbeddingFailureNoWrites ==
    [][ (now' # now /\ lastRun'.embedding = "failed") => db' = db ]_vars

\* C8: every run of fetch_and_process_posts that receives a non-empty
\* batch scores all trends: each trend has a TrendScore row of that run.
C8_ScoringOnEveryRun ==
    [][ (lastRun'.op = "fetch" /\ now' # now /\ lastRun'.received > 0) =>
          \A tid \in TrendIds(db') :
             \E s \in ScoresOf(db', tid) : db'.trendScores[s].date_generated = now' ]_vars

(***************************************************************************)
(* The Clusterer called on its own: _cluster_posts on a list of posts,     *)
(* with the labels KMeans gives them or with KMeans raising.               *)
(***************************************************************************)
MaxPosts == 5

\* the lists of posts: distinct posts in the order of their ids
PostLists == { Ascending(S, 0) : S \in SUBSET (1..MaxPosts) }

\* what KMeans can do with n posts: it is not called for n < 3 (line 110)
KMeansAnswers(n) ==
    IF n < 3 THEN { [labels |-> NoLabels, raises |-> FALSE] }
    ELSE { [labels |-> l, raises |-> FALSE] : l \in Labelings(n) }
         \cup { [labels |-> NoLabels, raises |-> TRUE] }

ClusterStep ==
    /\ \E posts \in PostLists :
         \E k \in KMeansAnswers(Len(posts)) :
            lastRun' = [NoRun EXCEPT !.op = "cluster", !.input = posts,
                            !.result = ClusterPosts(posts, k.labels, k.raises),
                            !.status = IF k.raises THEN "kmeans_raised" ELSE "clustered"]
    /\ UNCHANGED <<db, now, prevRun, sess>>
    /\ UNCHANGED components

NextClusterer ==
    \/ ClusterStep

SpecClusterer == Init /\ [][NextClusterer]_vars

\* C11: every group _cluster_posts returns is non-empty, and for an empty
\* list of posts it returns no group at all.
C11_GroupsNonEmpty ==
    lastRun.op = "cluster" =>
        /\ \A i \in DOMAIN lastRun.result : lastRun.result[i] # <<>>
        /\ lastRun.input = <<>> => lastRun.result = <<>>

\* the number of times post p occurs in the groups
TimesInGroups(groups, p) ==
    SumFn([i \in DOMAIN groups |->
             Cardinality({ j \in DOMAIN groups[i] : groups[i][j] = p })])

\* C12: for a list of one or more posts the groups of _cluster_posts are a
\* partition of the list (every post is in exactly one group, once, and the
\* groups hold nothing else); for one or two posts, and when KMeans raises,
\* the result is the one group of all posts.
C12_GroupsPartition ==
    (lastRun.op = "cluster" /\ Len(lastRun.input) >= 1) =>
        /\ \A p \in Range(lastRun.input) : TimesInGroups(lastRun.result, p) = 1
        /\ \A i \in DOMAIN lastRun.result : Range(lastRun.result[i]) \subseteq Range(lastRun.input)
        /\ (Len(lastRun.input) < 3 \/ lastRun.status = "kmeans_raised") =>
              lastRun.result = << lastRun.input >>

\* C12 witness: KMeans has split three or more posts into two groups
C12_Witness ==
    /\ lastRun.op = "cluster" /\ lastRun.status = "clustered"
    /\ Len(lastRun.input) >= 3
    /\ Len(lastRun.result) = 2
    /\ Len(lastRun.result[1]) + Len(lastRun.result[2]) = Len(lastRun.input)

\* the rows a step has appended to a table
NewRows(before, after) == { k \in DOMAIN after : k > Len(before) }

\* C13: a run of analyze_and_create_trends creates Trend rows and PostTrend
\* links only from clusters of two or more posts: every link it adds is for
\* a post of such a cluster, it adds no Trend row when there is no such
\* cluster, and a batch of one post adds nothing.
C13_NoSingletonTrends ==
    [][ (lastRun'.op = "analysis" /\ now' # now) =>
          LET big == { i \in DOMAIN lastRun'.result : Len(lastRun'.result[i]) >= 2 }
          IN  /\ \A k \in NewRows(db.postTrends, db'.postTrends) :
                    \E i \in big : db'.postTrends[k].post_id \in Range(lastRun'.result[i])
              /\ big = {} => (db'.trends = db.trends /\ db'.postTrends = db.postTrends)
              /\ Len(lastRun'.input) = 1 =>
                    (db'.trends = db.trends /\ db'.postTrends = db.postTrends) ]_vars

\* C13 witness: a run had a cluster of one post and a cluster of more, made
\* a trend, and the post of the small cluster has no link
C13_Witness ==
    /\ lastRun.op = "analysis"
    /\ \E i, j \in DOMAIN lastRun.result :
          /\ Len(lastRun.result[i]) = 1 /\ Len(lastRun.result[j]) >= 2
          /\ \A tid \in TrendIds(db) : ~HasLink(db, lastRun.result[i][1], tid)
          /\ \E tid \in TrendIds(db) : LinkedPosts(db, tid) = Range(lastRun.result[j])

(***************************************************************************)
(* Failures inside _create_trend_basic.  After the lookup (and the flush   *)
(* of a new Trend) any statement up to and including the commit can raise: *)
(* the handler of lines 190-193 rolls the session back and returns None.   *)
(***************************************************************************)
ResolveFail(p) ==
    /\ sess[p].pc \in {"linking", "committing"}
    /\ lastRun' = [NoRun EXCEPT !.op = "resolve", !.title = sess[p].title,
                       !.cluster = sess[p].cluster, !.input = sess[p],
                       !.status = "failed"]
    /\ prevRun' = lastRun
    /\ sess' = [sess EXCEPT ![p] = Idle]
    /\ UNCHANGED <<db, now>>
    /\ UNCHANGED components

NextAtomic ==
    \/ StoreStep
    \/ \E p \in Procs : ResolveLookup(p)
    \/ \E p \in Procs : ResolveLink(p)
    \/ \E p \in Procs : ResolveCommit(p)
    \/ \E p \in Procs : ResolveFail(p)

SpecAtomic == Init /\ [][NextAtomic]_vars

\* what a resolution s has written is all in the tables d
AllWritten(d, s) ==
    /\ \E i \in DOMAIN d.trends :
          /\ d.trends[i].id = s.trend /\ d.trends[i].title = s.title
          /\ d.trends[i].total_posts = Len(s.cluster) /\ d.trends[i].updated_at = s.t
    /\ \A j \in DOMAIN s.cluster : HasLink(d, s.cluster[j], s.trend)

\* C14: the writes of a resolution reach the tables together or not at
\* all: a step inside a resolution changes no Trend or PostTrend row, the
\* step that ends it either leaves both tables as they were or leaves the
\* Trend row, total_posts, updated_at and the links of the whole cluster in
\* them, and after a failed resolution the Trend it had inserted is not in
\* the table.
C14_ResolutionAtomic ==
    [][ \A p \in Procs :
          /\ (sess[p].pc = "idle" /\ sess'[p].pc # "idle") =>
                (db'.trends = db.trends /\ db'.postTrends = db.postTrends)
          /\ (sess[p].pc # "idle" /\ sess'[p].pc # "idle" /\ sess'[p] # sess[p]) =>
                (db'.trends = db.trends /\ db'.postTrends = db.postTrends)
          /\ (sess[p].pc # "idle" /\ sess'[p].pc = "idle") =>
                \/ /\ db'.trends = db.trends /\ db'.postTrends = db.postTrends
                   /\ sess[p].isNew => sess[p].trend \notin TrendIds(db')
                \/ /\ lastRun'.status = "committed"
                   /\ AllWritten(db', sess[p])
                   /\ IsPrefix(db.postTrends, db'.postTrends) ]_vars

\* C14 witness: a resolution that had inserted a new Trend and added the
\* links of its cluster failed, and nothing of it is in the tables
C14_Witness ==
    /\ lastRun.op = "resolve" /\ lastRun.status = "failed"
    /\ lastRun.input.isNew /\ lastRun.input.pc = "committing"
    /\ Len(lastRun.input.links) >= 2
    /\ lastRun.input.trend \notin TrendIds(db)
    /\ \A k \in DOMAIN db.postTrends : db.postTrends[k].trend_id # lastRun.input.trend

(***************************************************************************)
(* Persistence failures during a run of analyze_and_create_trends: the     *)
(* nine posts of the end-to-end scenario are analysed by                   *)
(* run_trend_analysis, KMeans gives the three groups, the namer gives the  *)
(* c-th cluster the c-th title, and persistence fails while the clusters   *)
(* of the set failing are resolved.                                        *)
(***************************************************************************)
AnalyzeAndCreateTrendsWithFailures(d, posts, env, failing, t) ==
    IF posts = <<>> THEN d
    ELSE IF ~env.embOk THEN d
    ELSE ClusterLoopWithFailures(d, ClusterPosts(posts, env.labels, env.kmeansRaises),
                                 env.names, 1, t, failing)

AnalysisE2E ==
    /\ now < MaxOps
    /\ Len(db.posts) = 9
    /\ LET t == now + 1
           posts == LatestPosts(db)
       IN  \E env \in E2EEnvs(posts), failing \in SUBSET (1..3) :
             /\ db' = CalculateTrendScores(
                         AnalyzeAndCreateTrendsWithFailures(db, posts, env, failing, t), t)
             /\ lastRun' = [NoRun EXCEPT !.op = "analysis", !.received = Len(posts),
                                !.embedding = EmbeddingOutcome(posts, env, TRUE),
                                !.input = posts, !.result = ClustersOfRun(posts, env),
                                !.failing = failing,
                                !.scored = TRUE, !.scoring = "ok", !.status = "done"]
    /\ now' = now + 1
    /\ prevRun' = lastRun
    /\ UNCHANGED sess
    /\ UNCHANGED components

NextIsolation ==
    \/ FetchE2E
    \/ AnalysisE2E

SpecIsolation == Init /\ [][NextIsolation]_vars

LinksOfTitle(d, title) ==
    { k \in DOMAIN d.postTrends : d.postTrends[k].trend_id = FindTrend(d, title) }

\* C15: when persistence fails while some clusters of a run are resolved,
\* every other cluster of the run, also a later one, is resolved (its
\* trend exists and is linked to all its posts), a failed cluster leaves
\* the rows of its title as they were, the rows committed before stay, and
\* the run ends normally.
C15_FailureIsolation ==
    [][ (lastRun'.op = "analysis" /\ now' # now) =>
          /\ Len(lastRun'.result) = 3
          /\ \A c \in 1..3 :
                IF c \in lastRun'.failing
                THEN /\ TrendRows(db', E2ETitles[c]) = TrendRows(db, E2ETitles[c])
                     /\ LinksOfTitle(db', E2ETitles[c]) = LinksOfTitle(db, E2ETitles[c])
                ELSE /\ FindTrend(db', E2ETitles[c]) # 0
                     /\ \A p \in Range(lastRun'.result[c]) :
                           HasLink(db', p, FindTrend(db', E2ETitles[c]))
          /\ IsPrefix(db.postTrends, db'.postTrends)
          /\ \A i \in DOMAIN db.trends :
                /\ i \in DOMAIN db'.trends
                /\ db'.trends[i].id = db.trends[i].id /\ db'.trends[i].title = db.trends[i].title
          /\ lastRun'.status = "done" /\ lastRun'.scored ]_vars

\* C15 witness: persistence failed for the second of three clusters; the
\* first and the third have their trends and links, the second has none
C15_Witness ==
    /\ lastRun.op = "analysis" /\ lastRun.failing = {2}
    /\ FindTrend(db, E2ETitles[2]) = 0
    /\ \A c \in {1, 3} :
          /\ FindTrend(db, E2ETitles[c]) # 0
          /\ LinkedPosts(db, FindTrend(db, E2ETitles[c])) = Range(lastRun.result[c])

(***************************************************************************)
(* A scoring pass that fails: an exception inside the try block of         *)
(* calculate_trend_scores (lines 75-91) goes to the handler of lines       *)
(* 93-96, which logs it, rolls the session back and returns.               *)
(***************************************************************************)
\* calculate_trend_scores when it fails: the added rows are rolled back
CalculateTrendScoresFailing(d, t) == d

\* fetch_and_process_posts, lines 75-94, on a batch that stores posts and
\* whose scoring pass fails: the call of line 88 returns normally, the
\* block commits and line 94 completes the task
FetchBatchScoringFails(batch, env) ==
    LET t == now + 1
        st == StorePostsAndAuthors(db, batch, t)
        analysed == TasksAnalyzeAndCreateTrends(st.db, st.stored, env, t)
    IN  /\ st.stored # <<>>
        /\ db' = CalculateTrendScoresFailing(analysed, t)
        /\ lastRun' = [NoRun EXCEPT !.op = "fetch", !.received = Len(batch),
                           !.stored = Len(st.stored),
                           !.embedding = EmbeddingOutcome(st.stored, env,
                                             BackgroundTasksHasTrendService),
                           !.scoring = "failed",
                           !.transaction = "committed",
                           !.status = "COMPLETED"]

FetchScoringFails ==
    /\ now < MaxOps
    /\ \E batch \in Batches \ { <<>> } :
         \E env \in TaskEnvs(StoredOf(batch)) : FetchBatchScoringFails(batch, env)
    /\ now' = now + 1
    /\ prevRun' = lastRun
    /\ UNCHANGED sess
    /\ monitor' = CompleteTask(StartTask(monitor, now + 1, now + 1), now + 1)
    /\ UNCHANGED <<manager, cache, breaker>>

NextScoringFailure ==
    \/ FetchAndProcessPosts
    \/ FetchScoringFails
    \/ RunTrendAnalysis

SpecScoringFailure == Init /\ [][NextScoringFailure]_vars

\* C16: a run of fetch_and_process_posts whose scoring pass fails ends with
\* its task FAILED, and the Trend and PostTrend rows committed before the
\* scoring pass are still in the tables.
C16_ScoringFailureFailsRun ==
    [][ (lastRun'.op = "fetch" /\ now' # now /\ lastRun'.scoring = "failed") =>
          /\ lastRun'.status = "FAILED"
          /\ IsPrefix(db.trends, db'.trends)
          /\ IsPrefix(db.postTrends, db'.postTrends) ]_vars

(***************************************************************************)
(* The score formula by itself, lines 282-311 of trend_service.py, on      *)
(* totals drawn from a bounded set.  The code computes in binary floating  *)
(* point: where the exact quotient is half-way between two hundredths the  *)
(* float lies a little to one side of it and round() goes to that side, so *)
(* both neighbours are outcomes here.                                      *)
(***************************************************************************)
TotalsInputs ==
    [likes : {0, 3, 100}, comments : {0, 1, 3, 10}, reposts : {0, 3, 5},
     followers : {0, 1, 3, 32, 1000}]

\* a result that drops the fraction instead of rounding it
RoundChoicesTruncating(n, m) == { n \div m }

\* line 311, round(score * 1000, 2): the hundredths nearest to n/m
RoundChoices(n, m) ==
    IF 2 * (n % m) = m THEN { n \div m, (n \div m) + 1 }
    ELSE { RoundDiv(n, m) }

\* lines 296-311 on the totals of lines 282-293
ScoreChoices(tot) ==
    LET followers == IF tot.followers = 0 THEN 1 ELSE tot.followers
        weighted10 == 10 * tot.likes + 11 * tot.comments + 12 * tot.reposts
    IN  RoundChoices(weighted10 * 10000, followers)

ScoreFormulaStep ==
    /\ \E tot \in TotalsInputs :
         \E r \in ScoreChoices(tot) :
           lastRun' = [NoRun EXCEPT !.op = "score_of", !.input = tot,
                           !.result = r, !.status = "scored"]
    /\ UNCHANGED <<db, now, prevRun, sess>>
    /\ UNCHANGED components

NextFormula == ScoreFormulaStep

SpecFormula == Init /\ [][NextFormula]_vars

Abs(x) == IF x < 0 THEN -x ELSE x

ExampleTotals == [likes |-> 100, comments |-> 10, reposts |-> 5, followers |-> 1000]

\* C17: for non-negative integer totals the score is
\* (likes + 1.1 comments + 1.2 reposts) / max(followers, 1) * 1000 rounded
\* to the nearest hundredth; the totals 100, 10, 5, 1000 give 117.0; with
\* followers = 0 the denominator is 1 and a score is returned.
C17_ScoreFormula ==
    lastRun.op = "score_of" =>
      LET tot == lastRun.input
          D == Max(tot.followers, 1)
          N == (10 * tot.likes + 11 * tot.comments + 12 * tot.reposts) * 10000
      IN  /\ lastRun.status = "scored"
          /\ 2 * Abs(lastRun.result * D - N) <= D
          /\ tot = ExampleTotals => lastRun.result = 11700
          /\ tot.followers = 0 => lastRun.result = N

C17_Witness ==
    /\ lastRun.op = "score_of"
    /\ lastRun.input = ExampleTotals
    /\ lastRun.result = 11700

(***************************************************************************)
(* Trend.get_latest_score, and the components started from tables that     *)
(* hold one stored post linked to one trend that has no score yet (the     *)
(* tables after one store and one resolution).                             *)
(***************************************************************************)
\* variant that reads the first row written for the trend
GetLatestScoreOldest(d, tid) ==
    IF ScoresOf(d, tid) = {} THEN 0
    ELSE d.trendScores[CHOOSE s \in ScoresOf(d, tid) :
                           \A u \in ScoresOf(d, tid) : s <= u].score

\* models.py lines 75-78: the rows of the trend ordered by date_generated
\* descending, the score of the first one, 0 without a row (the rows of a
\* trend are written by different passes and differ in date_generated)
GetLatestScore(d, tid) ==
    IF ScoresOf(d, tid) = {} THEN 0
    ELSE d.trendScores[CHOOSE s \in ScoresOf(d, tid) :
                           \A u \in ScoresOf(d, tid) :
                              d.trendScores[u].date_generated
                                 <= d.trendScores[s].date_generated].score

LinkedTrendDB ==
    LET st == StorePostsAndAuthors(EmptyDB,
                  << RawPost(1, CHOOSE r \in Readings : r.follower_count # 0, TRUE) >>, 0)
    IN  CreateTrendBasic(st.db, [text |-> "AI Ethics", padded |-> FALSE], <<1>>, 0).db

InitLatest ==
    /\ db = LinkedTrendDB
    /\ now = 0
    /\ lastRun = NoRun
    /\ prevRun = NoRun
    /\ sess = [p \in Procs |-> Idle]
    /\ manager = InitManager
    /\ monitor = InitMonitor
    /\ cache = InitCache
    /\ breaker = InitBreaker

SpecLatest == InitLatest /\ [][NextResolver]_vars

\* C18: every committed scoring pass gives a trend exactly one more
\* TrendScore row and no other step changes the number of its rows (a trend
\* starts without rows, so after N passes it has N); get_latest_score is
\* the score of the trend's row with the greatest date_generated, and 0 for
\* a trend without a row.
C18_LatestScore ==
    [][ \A tid \in TrendIds(db') :
          /\ Cardinality(ScoresOf(db', tid)) =
                IF tid \notin TrendIds(db) THEN 0
                ELSE IF lastRun'.op = "score" /\ now' # now
                     THEN Cardinality(ScoresOf(db, tid)) + 1
                     ELSE Cardinality(ScoresOf(db, tid))
          /\ ScoresOf(db', tid) = {} => GetLatestScore(db', tid) = 0
          /\ \A s \in ScoresOf(db', tid) :
                (\A u \in ScoresOf(db', tid) :
                    db'.trendScores[u].date_generated <= db'.trendScores[s].date_generated)
                => GetLatestScore(db', tid) = db'.trendScores[s].score ]_vars

\* C18 witness: a trend has two rows of two passes with different scores
\* and get_latest_score is the score of the later one
C18_Witness ==
    /\ lastRun.op = "score"
    /\ \E tid \in TrendIds(db) :
          /\ Cardinality(ScoresOf(db, tid)) = 2
          /\ \E s, u \in ScoresOf(db, tid) :
                /\ db.trendScores[u].date_generated < db.trendScores[s].date_generated
                /\ db.trendScores[u].score # db.trendScores[s].score
                /\ GetLatestScore(db, tid) = db.trendScores[s].score

(***************************************************************************)
(* OpenAIService.generate_embeddings under its decorator                   *)
(* retry_with_exponential_backoff(max_retries=3, base_delay=1).  The input *)
(* is what the embeddings API would answer to the first, second, ... call: *)
(* "ok", "error" (an exception without a status code of 401, 403 or 429,   *)
(* e.g. a timeout), "status_401" or "status_429".                          *)
(***************************************************************************)
MaxRetries == 3
BaseDelay == 1

ApiAnswers == {"ok", "error", "status_401", "status_429"}

ApiRuns == [1..(MaxRetries + 1) -> ApiAnswers]

\* lines 102-115, the decorated function: the API's exception is caught by
\* its own except clause, which logs and returns []
GenerateEmbeddingsBody(answer) ==
    IF answer = "ok" THEN [raised |-> FALSE, status |-> 0, value |-> "embeddings"]
    ELSE [raised |-> FALSE, status |-> 0, value |-> "empty"]

\* variant of the wrapper that tries again after any error
RECURSIVE RetryLoopRetryingAll(_, _, _, _, _)
RetryLoopRetryingAll(outcomes, attempt, delays, maxRetries, baseDelay) ==
    LET r == outcomes[attempt + 1]
    IN  IF ~r.raised
        THEN [raised |-> FALSE, value |-> r.value, error |-> 0,
              attempts |-> attempt + 1, delays |-> delays]
        ELSE IF attempt < maxRetries
        THEN RetryLoopRetryingAll(outcomes, attempt + 1,
                 Append(delays, baseDelay * (2 ^ attempt)), maxRetries, baseDelay)
        ELSE [raised |-> TRUE, value |-> "none", error |-> attempt + 1,
              attempts |-> attempt + 1, delays |-> delays]

\* lines 18-38, wrapper.  outcomes[k] is what the k-th invocation of the
\* wrapped function does: return value, or raise an exception with status
\* (0: no status_code).  attempt is the loop variable of line 20, delays
\* the arguments of time.sleep so far; error is the invocation whose
\* exception the wrapper raises.
RECURSIVE RetryLoop(_, _, _, _, _)
RetryLoop(outcomes, attempt, delays, maxRetries, baseDelay) ==
    LET r == outcomes[attempt + 1]
    IN  IF ~r.raised
        THEN [raised |-> FALSE, value |-> r.value, error |-> 0,
              attempts |-> attempt + 1, delays |-> delays]
        ELSE IF r.status \in {401, 403, 429}
        THEN [raised |-> TRUE, value |-> "none", error |-> attempt + 1,
              attempts |-> attempt + 1, delays |-> delays]
        ELSE IF attempt < maxRetries
        THEN RetryLoop(outcomes, attempt + 1,
                 Append(delays, baseDelay * (2 ^ attempt)), maxRetries, baseDelay)
        ELSE [raised |-> TRUE, value |-> "none", error |-> attempt + 1,
              attempts |-> attempt + 1, delays |-> delays]

\* the wrapper around generate_embeddings, line 92
RetryWrapper(answers, attempt, delays) ==
    RetryLoop([k \in DOMAIN answers |-> GenerateEmbeddingsBody(answers[k])],
              attempt, delays, MaxRetries, BaseDelay)

\* one call of openai_service.generate_embeddings(texts)
GenerateEmbeddings(answers) == RetryWrapper(answers, 0, <<>>)

EmbedStep ==
    /\ \E answers \in ApiRuns :
         LET r == GenerateEmbeddings(answers)
         IN  lastRun' = [NoRun EXCEPT !.op = "embed", !.input = answers, !.result = r,
                             !.status = IF r.raised THEN "raised"
                                        ELSE IF r.value = "embeddings" THEN "returned"
                                        ELSE "returned_empty"]
    /\ UNCHANGED <<db, now, prevRun, sess>>
    /\ UNCHANGED components

NextEmbed == EmbedStep

SpecEmbed == Init /\ [][NextEmbed]_vars

\* the first call that the API answers with "ok", MaxRetries + 2 if none
FirstOk(answers) ==
    IF \E k \in DOMAIN answers : answers[k] = "ok"
    THEN CHOOSE k \in DOMAIN answers :
            answers[k] = "ok" /\ \A j \in 1..(k - 1) : answers[j] # "ok"
    ELSE MaxRetries + 2

\* C19: when the calls fail with retryable errors, generate_embeddings
\* calls the API again after 1 s, 2 s and 4 s, up to 4 attempts; it returns
\* the embeddings of the first attempt that succeeds, and reports failure
\* only after the fourth attempt has failed.
C19_RetryWithBackoff ==
    (lastRun.op = "embed" /\ \A k \in DOMAIN lastRun.input : lastRun.input[k] \in {"ok", "error"})
    => LET k == FirstOk(lastRun.input)
           made == Min(k, MaxRetries + 1)
       IN  /\ lastRun.result.attempts = made
           /\ lastRun.result.delays = SubSeq(<<1, 2, 4>>, 1, made - 1)
           /\ (k <= MaxRetries + 1) <=> (lastRun.result.value = "embeddings")

\* the Author rows of a username
AuthorRows(d, username) == { k \in DOMAIN d.authors : d.authors[k].username = username }

\* C20: when a store receives a complete record of a new post whose author
\* handle is already in the authors table, the table still has one row for
\* that handle afterwards, the row carries the record's follower count, and
\* the new post is stored with that row as its author.
C20_AuthorReused ==
    [][ (lastRun'.op = "store" /\ now' # now) =>
          \A i \in DOMAIN lastRun'.batch :
             LET rec == lastRun'.batch[i]
                 a == FindAuthor(db, rec.username)
             IN  ( /\ rec.complete
                   /\ FindPost(db, rec.post_id) = 0
                   /\ a # 0
                   /\ \A j \in (i + 1)..Len(lastRun'.batch) :
                         lastRun'.batch[j].username # rec.username )
                 => /\ AuthorRows(db', rec.username) = {a}
                    /\ db'.authors[a].follower_count = rec.follower_count
                    /\ FindPost(db', rec.post_id) # 0
                    /\ db'.posts[FindPost(db', rec.post_id)].author_id = a ]_vars

\* the complete records of a batch with a post_id that is not in the table
NewRecords(d, batch) ==
    { j \in DOMAIN batch : batch[j].complete /\ batch[j].username # ""
                           /\ FindPost(d, batch[j].post_id) = 0 }

\* C21: a call of _store_posts_and_authors stores and returns exactly one
\* Post, with exactly one Engagement row, for every record of the batch that
\* has all required fields, a username and a post_id not stored before;
\* records that lack a field do not keep the others from being stored.
C21_StoresEveryNewRecord ==
    [][ (lastRun'.op = "store" /\ now' # now) =>
          /\ lastRun'.stored = Cardinality(NewRecords(db, lastRun'.batch))
          /\ \A j \in NewRecords(db, lastRun'.batch) :
                LET pid == lastRun'.batch[j].post_id
                IN  /\ Cardinality(PostRows(db', pid)) = 1
                    /\ Cardinality(SnapshotsOf(db', FindPost(db', pid))) = 1 ]_vars

SpecManager == Init /\ [][NextManager]_vars

\* C22: as long as cleanup() has not been called, every construction
\* ServiceManager() has returned the same object and every read of a service
\* property has returned the same instance, whatever the interleaving of
\* the threads.
C22_SingletonServices ==
    manager.cleanups = 0 =>
        /\ Cardinality(manager.constructed) <= 1
        /\ Cardinality(manager.got) <= 1

(***************************************************************************)
(* The TaskMonitor called directly, as scripts/test_phase2_architecture.py *)
(* does: start_task, complete_task and fail_task on a few task ids.        *)
(***************************************************************************)
TaskIds == {1, 2, 3}

MonitorStep(op, id, after) ==
    /\ now < MaxOps
    /\ monitor' = after
    /\ now' = now + 1
    /\ prevRun' = lastRun
    /\ lastRun' = [NoRun EXCEPT !.op = op, !.input = id]
    /\ UNCHANGED <<db, sess, manager, cache, breaker>>

MonitorStart == \E id \in TaskIds : MonitorStep("start_task", id, StartTask(monitor, id, now + 1))

MonitorComplete == \E id \in TaskIds : MonitorStep("complete_task", id, CompleteTask(monitor, id))

MonitorFail == \E id \in TaskIds : MonitorStep("fail_task", id, FailTask(monitor, id))

NextMonitor ==
    \/ MonitorStart
    \/ MonitorComplete
    \/ MonitorFail

SpecMonitor == Init /\ [][NextMonitor]_vars

\* C23: start_task(t) puts t in current_tasks with status RUNNING and
\* get_running_tasks lists it; complete_task(t) and fail_task(t) remove t
\* from current_tasks, and change nothing when t is not there; a task that
\* is not listed becomes listed only by a start_task of it.
C23_TaskLifecycle ==
    [][ now' # now =>
          LET t == lastRun'.input
          IN  /\ lastRun'.op = "start_task" =>
                   /\ t \in GetRunningTasks(monitor')
                   /\ monitor'.current_tasks[t].status = "RUNNING"
              /\ lastRun'.op \in {"complete_task", "fail_task"} =>
                   /\ t \notin DOMAIN monitor'.current_tasks
                   /\ t \notin GetRunningTasks(monitor')
                   /\ t \notin DOMAIN monitor.current_tasks => monitor' = monitor
              /\ \A k \in GetRunningTasks(monitor') \ GetRunningTasks(monitor) :
                   lastRun'.op = "start_task" /\ t = k ]_vars

\* C23 witness: a started task has been completed and is gone, while
\* another started task is still listed
C23_Witness ==
    /\ lastRun.op = "complete_task"
    /\ lastRun.input \notin DOMAIN monitor.current_tasks
    /\ prevRun.op = "start_task" /\ prevRun.input = lastRun.input
    /\ GetRunningTasks(monitor) # {}

(***************************************************************************)
(* The cache called directly.  The clock advances between calls (Tick);    *)
(* lastRun.input is the list of the calls made so far, each with the time  *)
(* it was made at, lastRun.result what the last get returned.              *)
(***************************************************************************)
\* calls and seconds of one behaviour, together
MaxCalls == 4

CacheKeys == {"trends", "posts"}
CacheValues == {1, 2}
CacheTtls == {0, 2}

CacheStep(call, after, value) ==
    /\ Len(lastRun.input) + now < MaxCalls
    /\ cache' = after
    /\ lastRun' = [NoRun EXCEPT !.op = call.op,
                       !.input = Append(lastRun.input, [call EXCEPT !.at = now]),
                       !.result = value]
    /\ UNCHANGED <<db, now, prevRun, sess, manager, monitor, breaker>>

CacheSetStep ==
    \E k \in CacheKeys, v \in CacheValues, ttl \in CacheTtls :
        CacheStep([op |-> "set", key |-> k, value |-> v, ttl |-> ttl, at |-> 0],
                  CacheSet(cache, k, v, ttl, now), 0)

CacheGetStep ==
    \E k \in CacheKeys :
        CacheStep([op |-> "get", key |-> k, value |-> 0, ttl |-> 0, at |-> 0],
                  CacheGet(cache, k, now).cache, CacheGet(cache, k, now).value)

CacheDeleteStep ==
    \E k \in CacheKeys :
        CacheStep([op |-> "delete", key |-> k, value |-> 0, ttl |-> 0, at |-> 0],
                  CacheDelete(cache, k), 0)

Tick ==
    /\ Len(lastRun.input) + now < MaxCalls
    /\ now' = now + 1
    /\ UNCHANGED <<db, lastRun, prevRun, sess>>
    /\ UNCHANGED components

NextCache ==
    \/ CacheSetStep
    \/ CacheGetStep
    \/ CacheDeleteStep
    \/ Tick

SpecCache == Init /\ [][NextCache]_vars

\* the last set or delete of the key among the first n calls (0: none)
LastWrite(log, k, n) ==
    LET W == { i \in 1..n : log[i].key = k /\ log[i].op \in {"set", "delete"} }
    IN  IF W = {} THEN 0 ELSE CHOOSE i \in W : \A j \in W : j <= i

\* C24: get(k) returns the value of the most recent set(k, v, ttl) exactly
\* when k was not deleted after that set and ttl seconds have not passed
\* since it; otherwise it returns None, and after such a get the key is not
\* in memory_cache.
C24_CacheGet ==
    lastRun.op = "get" =>
      LET log == lastRun.input
          call == log[Len(log)]
          w == LastWrite(log, call.key, Len(log) - 1)
          live == /\ w # 0
                  /\ log[w].op = "set"
                  /\ call.at < log[w].at + log[w].ttl
      IN  /\ live => lastRun.result = log[w].value
          /\ ~live => /\ lastRun.result = 0
                      /\ call.key \notin DOMAIN cache.memory_cache

\* C24 witness: a key was set with a ttl of 2 s and read when the 2 s had
\* passed: the get has returned None and removed the entry
C24_Witness ==
    /\ lastRun.op = "get"
    /\ Len(lastRun.input) = 2
    /\ lastRun.input[1].op = "set" /\ lastRun.input[1].ttl = 2
    /\ lastRun.input[1].key = lastRun.input[2].key
    /\ lastRun.input[2].at = 2
    /\ lastRun.result = 0
    /\ lastRun.input[2].key \notin DOMAIN cache.memory_cache

(***************************************************************************)
(* BackgroundTasks.database_transaction around the block of lines 76-88 of *)
(* fetch_and_process_posts.  The statements of the block commit by         *)
(* themselves (_store_posts_and_authors at line 203), so the session holds *)
(* nothing pending when the block goes on to line 81.  Line 88 reads       *)
(* service_manager.trend_service, which constructs TrendService and with   *)
(* it OpenAIService on first use; that constructor raises ValueError when  *)
(* OPENAI_API_KEY is not set.                                              *)
(***************************************************************************)
\* database_transaction, lines 28-34: committed are the tables as last
\* committed, pending the tables with the session's uncommitted writes
DatabaseTransaction(committed, pending, blockRaises) ==
    IF blockRaises THEN [db |-> committed, raised |-> "DatabaseException"]
    ELSE [db |-> pending, raised |-> "none"]

\* lines 76-88 when the read of trend_service at line 88 raises, then
\* lines 100-103
FetchBatchServiceRaises(batch) ==
    LET t == now + 1
        st == StorePostsAndAuthors(db, batch, t)
        analysed == TasksAnalyzeAndCreateTrends(st.db, st.stored, NoEnv, t)
        tx == DatabaseTransaction(analysed, analysed, TRUE)
    IN  /\ st.stored # <<>>
        /\ db' = tx.db
        /\ lastRun' = [NoRun EXCEPT !.op = "fetch", !.received = Len(batch),
                           !.stored = Len(st.stored),
                           !.transaction = "rolled_back",
                           !.result = tx.raised,
                           !.status = "FAILED"]

FetchServiceRaises ==
    /\ now < MaxOps
    /\ \E batch \in Batches \ { <<>> } : FetchBatchServiceRaises(batch)
    /\ now' = now + 1
    /\ prevRun' = lastRun
    /\ UNCHANGED sess
    /\ monitor' = FailTask(StartTask(monitor, now + 1, now + 1), now + 1)
    /\ UNCHANGED <<manager, cache, breaker>>

NextTransaction ==
    \/ FetchAndProcessPosts
    \/ FetchServiceRaises
    \/ RunTrendAnalysis

SpecTransaction == Init /\ [][NextTransaction]_vars

\* C25: the block of fetch_and_process_posts under database_transaction is
\* committed when it ends without an exception; when it raises, no write
\* made inside the block persists and DatabaseException reaches the caller.
C25_TransactionBlock ==
    [][ (lastRun'.op = "fetch" /\ now' # now) =>
          /\ lastRun'.transaction = "committed" =>
                Len(db'.posts) = Len(db.posts) + lastRun'.stored
          /\ lastRun'.transaction = "rolled_back" =>
                /\ db' = db
                /\ lastRun'.result = "DatabaseException" ]_vars

(***************************************************************************)
(* The OpenAIService called directly, with the clock advancing between the *)
(* calls in steps of ClockStep seconds.                                    *)
(***************************************************************************)
MaxClock == 600
ClockStep == 150

PostContents == {"none", "a", "b"}
ApiOutcomes == {"ok", "error", "timeout"}

ClusterCall ==
    /\ \E posts \in PostContents, api \in ApiOutcomes :
         LET r == ClusterAndIdentifyTrends(breaker, cache, posts, api, now)
         IN  /\ breaker' = r.breaker
             /\ cache' = r.cache
             /\ lastRun' = [NoRun EXCEPT !.op = "cluster_and_identify_trends",
                                !.input = [posts |-> posts, api |-> api, at |-> now],
                                !.result = [value |-> r.value, apiCalled |-> r.apiCalled,
                                            closed |-> breaker.circuit_open
                                                         /\ ~r.breaker.circuit_open]]
    /\ UNCHANGED <<db, now, prevRun, sess, manager, monitor>>

ClockTick ==
    /\ now < MaxClock
    /\ now' = now + ClockStep
    /\ UNCHANGED <<db, lastRun, prevRun, sess>>
    /\ UNCHANGED components

NextBreaker ==
    \/ ClusterCall
    \/ ClockTick

SpecBreaker == Init /\ [][NextBreaker]_vars

\* what C26 says of one step; a step that leaves the clock alone is a call.
\* everyCall: the call after the timeout closes the circuit whatever its
\* posts; otherwise only a call with at least one post is required to
BreakerClaim(everyCall) ==
    /\ breaker'.circuit_open => breaker'.failure_count >= FailureThreshold
    /\ (now' = now /\ breaker.circuit_open) =>
          /\ now - breaker.last_failure_time < RecoveryTimeout =>
                /\ ~lastRun'.result.apiCalled
                /\ lastRun'.result.value = FallbackTrendIdentification(lastRun'.input.posts)
                /\ breaker' = breaker
          /\ (/\ now - breaker.last_failure_time > RecoveryTimeout
              /\ everyCall \/ lastRun'.input.posts # "none") =>
                /\ ~breaker'.circuit_open
                /\ breaker'.failure_count =
                      IF lastRun'.result.apiCalled /\ lastRun'.input.api # "ok" THEN 1 ELSE 0

\* C26 as stated: an open circuit has at least failure_threshold failures;
\* a call while the circuit is open and less than recovery_timeout has
\* passed since the last failure makes no API call and returns the keyword
\* fallback; the first call after more than recovery_timeout closes the
\* circuit with failure_count reset to 0 (1 when its own API call fails).
C26_CircuitBreaker == [][BreakerClaim(TRUE)]_vars

\* C26 amended: the same, where the call that closes the circuit is the
\* first call with at least one post.
C26_CircuitBreakerWithPosts == [][BreakerClaim(FALSE)]_vars

\* C26 witness: the circuit was open, more than recovery_timeout had passed
\* since the last failure, and a call with posts has closed it and reached
\* the API, which answered
C26_Witness ==
    /\ lastRun.op = "cluster_and_identify_trends"
    /\ lastRun.input.posts # "none"
    /\ lastRun.result.closed
    /\ lastRun.result.apiCalled
    /\ lastRun.input.at - breaker.last_failure_time > RecoveryTimeout
    /\ ~breaker.circuit_open
    /\ breaker.failure_count = 0

(***************************************************************************)
(* retry_with_exponential_backoff(max_retries, base_delay) around any      *)
(* function: every run of at most max_retries + 1 invocations that return  *)
(* or raise.                                                               *)
(***************************************************************************)
Invocations ==
    { [raised |-> FALSE, status |-> 0, value |-> "result"],
      [raised |-> TRUE, status |-> 0, value |-> "none"],
      [raised |-> TRUE, status |-> 500, value |-> "none"],
      [raised |-> TRUE, status |-> 429, value |-> "none"] }

RetryStep ==
    /\ \E m \in 0..MaxRetries, base \in {BaseDelay, 2 * BaseDelay} :
         \E outcomes \in [1..(m + 1) -> Invocations] :
            lastRun' = [NoRun EXCEPT !.op = "retry",
                            !.input = [outcomes |-> outcomes, max_retries |-> m,
                                       base_delay |-> base],
                            !.result = RetryLoop(outcomes, 0, <<>>, m, base)]
    /\ UNCHANGED <<db, now, prevRun, sess>>
    /\ UNCHANGED components

NextRetry == RetryStep

SpecRetry == Init /\ [][NextRetry]_vars

\* the invocation at which the wrapper stops: the first that returns or
\* raises with status_code 401, 403 or 429, else the last one
StopsAt(outcomes) ==
    LET S == { k \in DOMAIN outcomes :
                  ~outcomes[k].raised \/ outcomes[k].status \in {401, 403, 429} }
    IN  IF S = {} THEN Len(outcomes) ELSE CHOOSE k \in S : \A j \in S : k <= j

\* C27: a call of the wrapped function invokes it at most max_retries + 1
\* times and ends: with the first result returned, or with the error of the
\* first invocation that raised with status_code 401, 403 or 429, or with
\* the error of invocation max_retries + 1; before the retry that follows
\* failed attempt a (from 0) it sleeps base_delay * 2^a.
C27_BoundedRetry ==
    lastRun.op = "retry" =>
      LET outcomes == lastRun.input.outcomes
          k == StopsAt(outcomes)
          r == lastRun.result
      IN  /\ r.attempts = k
          /\ r.attempts <= lastRun.input.max_retries + 1
          /\ r.delays = [a \in 1..(k - 1) |-> lastRun.input.base_delay * (2 ^ (a - 1))]
          /\ ~outcomes[k].raised => (~r.raised /\ r.value = outcomes[k].value)
          /\ outcomes[k].raised => (r.raised /\ r.error = k)

\* C27 witness: three failed attempts, sleeps of 1, 2 and 4 s, and the
\* fourth invocation returns
C27_Witness ==
    /\ lastRun.op = "retry"
    /\ lastRun.input.max_retries = 3
    /\ lastRun.result.attempts = 4
    /\ lastRun.result.delays = <<1, 2, 4>>
    /\ ~lastRun.result.raised

\* the PostTrend rows of a trend
LinksOf(d, tid) == { k \in DOMAIN d.postTrends : d.postTrends[k].trend_id = tid }

\* C28: after a committed resolution the trend's total_posts equals the
\* number of PostTrend rows of the trend, also when the cluster was merged
\* into a trend that had other posts.
C28_TotalPostsConsistent ==
    (lastRun.op = "resolve" /\ lastRun.trend # 0) =>
        db.trends[TrendIndex(db, lastRun.trend)].total_posts
            = Cardinality(LinksOf(db, lastRun.trend))

\* C29: when fetch_and_process_posts has returned or raised, the task it
\* started is marked COMPLETED or FAILED and is no longer in current_tasks,
\* also when the source returned no posts.
C29_FetchTaskEnds ==
    lastRun.op = "fetch" =>
        /\ lastRun.status \in {"COMPLETED", "FAILED"}
        /\ now \notin DOMAIN monitor.current_tasks

\* C30: when a run of daily_trend_analysis has ended, the recent posts it
\* found have been given to the analysis and every Trend has a TrendScore
\* row written by the run.
C30_DailyAnalysisScores ==
    lastRun.op = "daily" =>
        /\ lastRun.received > 0 => lastRun.embedding # "not_called"
        /\ lastRun.scored
        /\ \A i \in DOMAIN db.trends :
             \E s \in ScoresOf(db, db.trends[i].id) : db.trendScores[s].date_generated = now

====
